---- MODULE Spec2Model ----
(***************************************************************************)
(* A state-machine model of src/checkin.py (class RouterCheckin): the      *)
(* orchestrator run_all, the per-account pipelines checkin_anyrouter and   *)
(* checkin_agentrouter, the browser bootstrap, the HTTP check-in protocol  *)
(* (_do_anyrouter_checkin / _do_agentrouter_checkin) and the balance       *)
(* ledger.  Every await of the program is one action; the synchronous code *)
(* that follows an await up to the next one (handlers, finally blocks,     *)
(* returns to the caller) belongs to the same action.                      *)
(*                                                                         *)
(* Text is modelled by tags: a message is a record [kind, text, n] where   *)
(* kind names the fixed prefix of the f-string, text the interpolated      *)
(* field and n the number of characters of exception text (or the HTTP     *)
(* status) that follows the prefix.                                        *)
(***************************************************************************)
EXTENDS Integers, Sequences, FiniteSets, TLC

(* ------------------------------------------------------------------ *)
(* Bounds of the model                                                 *)
(* ------------------------------------------------------------------ *)
\* Total number of configured accounts over both platforms.
MaxAccounts == 2
\* Length of the longest exception text str(e) the environment produces.
MaxExcLen == 51
\* Number of accounts in the balance maps the fingerprint is taken of.
MaxLedgerKeys == 2
\* Number of consecutive runs of the program over the same ledger files.
MaxRuns == 2

(* ------------------------------------------------------------------ *)
(* Program constants                                                   *)
(* ------------------------------------------------------------------ *)
\* str(e)[:50]
ExcSummaryLen == 50
\* quota / 500000
QuotaScale == 500000

(* ------------------------------------------------------------------ *)
(* Values                                                              *)
(* ------------------------------------------------------------------ *)
\* Python None for a balance: `balance = None`.
NoBalance == [has |-> FALSE, quota |-> 0, used |-> 0]

\* A balance dict {'quota': q, 'used': u}; amounts are kept in cents
\* (two decimals).  A dict with two keys is truthy even when both are 0.
Balance(q, u) == [has |-> TRUE, quota |-> q, used |-> u]

\* round(raw / 500000, 2), in cents: round(raw * 100 / 500000).  The raw
\* values of the model are never exactly half-way between two cents.
Cents(raw) == (raw * 200 + QuotaScale) \div (2 * QuotaScale)

\* A message: the f-string's fixed prefix (kind), an interpolated text
\* field, and a number (characters of exception text, or an HTTP status).
Msg(kind, text, n) == [kind |-> kind, text |-> text, n |-> n]

\* str(e)[:50]: the number of characters kept of a text of n characters.
TruncateNo50(n) == n

Truncate(n) == IF n > ExcSummaryLen THEN ExcSummaryLen ELSE n

\* An exception value: its class and the length of str(e).
Exc(cls, len) == [cls |-> cls, len |-> len]

NoExc == Exc("none", 0)

\* Lengths of exception texts the environment produces.
ExcLens == {3, ExcSummaryLen, MaxExcLen}

(* ------------------------------------------------------------------ *)
(* HTTP responses of the platform API                                  *)
(* ------------------------------------------------------------------ *)
\* A response to GET /api/user/self.  raised: client.get raised (network
\* error, timeout).  json: response.json() yields an object.  success,
\* quota, used: the body's `success` flag and data.quota / data.used_quota
\* in raw units (a missing key reads as 0: data.get('quota', 0)).
GetResp(raised, status, json, success, quota, used) ==
  [raised |-> raised, status |-> status, json |-> json,
   success |-> success, quota |-> quota, used |-> used]

NoGet == GetResp(FALSE, 0, FALSE, FALSE, 0, 0)

\* Raw quota / used_quota values: $12.00, $10.00, $2.00, $2.47 and a
\* missing key.
RawAmounts == {0, 1000000, 1234567, 5000000, 6000000}

GetRaises   == {GetResp(TRUE, 0, FALSE, FALSE, 0, 0)}
GetBalances == {GetResp(FALSE, 200, TRUE, TRUE, q, u) :
                  q \in RawAmounts, u \in {0, 1000000}}
GetNoBalance == {GetResp(FALSE, 200, TRUE, FALSE, 0, 0),   \* success: false
                 GetResp(FALSE, 200, FALSE, FALSE, 0, 0),  \* malformed body
                 GetResp(FALSE, 401, TRUE, FALSE, 0, 0),   \* expired session
                 GetResp(FALSE, 401, FALSE, FALSE, 0, 0),
                 GetResp(FALSE, 500, FALSE, FALSE, 0, 0)}  \* any other status

\* Every answer to the balance read.
GetResponses == GetRaises \cup GetBalances \cup GetNoBalance

\* A representative answer of each kind, for runs over several accounts.
GetCore == GetRaises
           \cup {GetResp(FALSE, 200, TRUE, TRUE, 5000000, 1000000),
                 GetResp(FALSE, 401, TRUE, FALSE, 0, 0)}

\* Raw response bodies, as sequences of characters.
TxtSUCCESS == <<"S", "U", "C", "C", "E", "S", "S">>
TxtOkSuccess == <<"o", "k", " ", "S", "u", "c", "c", "e", "s", "s", "!">>
TxtSucces == <<"s", "u", "c", "c", "e", "s">>
TxtFail == <<"F", "a", "i", "l">>
TxtEmpty == << >>
TxtNeedle == <<"s", "u", "c", "c", "e", "s", "s">>

\* str.lower() on the characters the bodies use.
LowerChar(c) ==
  CASE c = "S" -> "s" [] c = "U" -> "u" [] c = "C" -> "c"
    [] c = "E" -> "e" [] c = "F" -> "f" [] OTHER -> c

Lower(s) == [i \in 1..Len(s) |-> LowerChar(s[i])]

\* Python `sub in s` on strings.
Contains(sub, s) ==
  \E k \in 0..(Len(s) - Len(sub)) :
     \A j \in 1..Len(sub) : s[k + j] = sub[j]

\* A response to POST /api/user/sign_in.  raised: client.post raised exc.
\* form: how response.json() fares: "obj" (a JSON object), "nonobj" (valid
\* JSON that is no object, so result.get raises AttributeError) or "text"
\* (json() raises JSONDecodeError).  ret, code, success, msg, message: the
\* object's fields as JSON literals, "absent" for a missing key.
PostResp(raised, exc, status, form, ret, code, success, msg, message, text) ==
  [raised |-> raised, exc |-> exc, status |-> status, form |-> form,
   ret |-> ret, code |-> code, success |-> success, msg |-> msg,
   message |-> message, text |-> text]

NoPost == PostResp(FALSE, NoExc, 0, "text", "absent", "absent", "absent",
                   "absent", "absent", TxtEmpty)

PostStatus(status) ==
  PostResp(FALSE, NoExc, status, "text", "absent", "absent", "absent",
           "absent", "absent", TxtEmpty)

PostObj(ret, code, success, msg, message) ==
  PostResp(FALSE, NoExc, 200, "obj", ret, code, success, msg, message, TxtEmpty)

PostText(form, text) ==
  PostResp(FALSE, NoExc, 200, form, "absent", "absent", "absent",
           "absent", "absent", text)

PostRaise(cls, len) ==
  PostResp(TRUE, Exc(cls, len), 0, "text", "absent", "absent", "absent",
           "absent", "absent", TxtEmpty)

\* What client.post can raise: httpx transport errors.  httpx raises
\* HTTPStatusError only from response.raise_for_status(), which the
\* program never calls.
PostExcClasses == {"ConnectError", "ReadTimeout"}

PostRaises == {PostRaise(c, n) : c \in PostExcClasses, n \in ExcLens}

PostObjects ==
  {PostObj(r, c, s, m, mm) :
     r \in {"absent", "0", "1"}, c \in {"absent", "0", "5"},
     s \in {"absent", "true", "false", "null"},
     m \in {"absent", "cooldown"}, mm \in {"absent", "busy"}}

PostTexts ==
  {PostText("text", t) :
     t \in {TxtSUCCESS, TxtOkSuccess, TxtSucces, TxtFail, TxtEmpty}}
  \cup {PostText("nonobj", TxtFail)}

PostStatuses == {PostStatus(404), PostStatus(401), PostStatus(500)}

\* Every answer to the sign-in call.
PostResponses == PostRaises \cup PostObjects \cup PostTexts \cup PostStatuses

\* A representative answer of each kind, for runs over several accounts.
PostCore ==
  {PostRaise("ConnectError", MaxExcLen),
   PostObj("1", "absent", "absent", "absent", "absent"),
   PostObj("absent", "5", "absent", "cooldown", "absent"),
   PostText("text", TxtFail),
   PostStatus(404)}

(* ------------------------------------------------------------------ *)
(* The check-in protocol: _do_anyrouter_checkin, _do_agentrouter_checkin *)
(* ------------------------------------------------------------------ *)
\* The (success, message, balance) tuple the operation returns.
Ret(success, message, balance) ==
  [success |-> success, message |-> message, balance |-> balance]

NoRet == Ret(FALSE, Msg("none", "", 0), NoBalance)

\* Step 1, the balance read inside its own try/except: only HTTP 200 with
\* a JSON object whose `success` is truthy sets balance; a raised request,
\* a body that does not parse, HTTP 401 and any other status leave it None.
read_balance(resp) ==
  IF resp.raised THEN NoBalance
  ELSE IF resp.status = 200
       THEN IF resp.json /\ resp.success
            THEN Balance(Cents(resp.quota), Cents(resp.used))
            ELSE NoBalance
       ELSE NoBalance

\* Python truthiness of a JSON value read with result.get(key).
Truthy(v) == v \notin {"absent", "null", "false", "0", "\"\""}

\* result.get('ret') == 1 or result.get('code') == 0 or result.get('success')
json_successDropCode(resp) == resp.ret = "1" \/ Truthy(resp.success)

json_success(resp) ==
  resp.ret = "1" \/ resp.code = "0" \/ Truthy(resp.success)

\* result.get('msg', result.get('message', '未知错误'))
fail_text(resp) ==
  IF resp.msg # "absent" THEN resp.msg
  ELSE IF resp.message # "absent" THEN resp.message
  ELSE "unknown_error"

\* 'success' in response.text.lower()
text_has_success(resp) == Contains(TxtNeedle, Lower(resp.text))

\* The verdict on a parsed JSON object (the two platforms share it).
json_verdict(resp, balance) ==
  IF json_success(resp)
  THEN Ret(TRUE, Msg("checkin_ok", "", 0), balance)
  ELSE Ret(FALSE, Msg("checkin_failed", fail_text(resp), 0), balance)

\* except Exception as e: return False, f'请求异常: {str(e)[:50]}', None
request_exception(exc) ==
  Ret(FALSE, Msg("request_exception", exc.cls, Truncate(exc.len)), NoBalance)

\* The exception response.json() / result.get raises on a body that is no
\* JSON object, with the length of its text.
body_exception(resp) ==
  IF resp.form = "text" THEN Exc("JSONDecodeError", 41)
  ELSE Exc("AttributeError", 36)

\* _do_anyrouter_checkin from the sign-in POST to its return value.
anyrouter_verdict(resp, balance) ==
  IF resp.raised THEN request_exception(resp.exc)
  ELSE IF resp.status = 200
       THEN IF resp.form = "obj" THEN json_verdict(resp, balance)
            ELSE IF text_has_success(resp)
                 THEN Ret(TRUE, Msg("checkin_ok", "", 0), balance)
                 ELSE Ret(FALSE, Msg("checkin_failed", "response_format_error", 0),
                          balance)
       ELSE Ret(FALSE, Msg("checkin_failed", "HTTP", resp.status), balance)

\* _do_agentrouter_checkin from the sign-in POST to its return value.
agentrouter_verdictAnyStatus(resp, balance) ==
  IF resp.raised THEN request_exception(resp.exc)
  ELSE IF resp.status = 200
       THEN IF resp.form = "obj" THEN json_verdict(resp, balance)
            ELSE request_exception(body_exception(resp))
       ELSE IF balance.has
            THEN Ret(TRUE, Msg("keepalive_ok", "", 0), balance)
            ELSE Ret(FALSE, Msg("keepalive_failed", "", 0), NoBalance)

agentrouter_verdictNoKeepAlive(resp, balance) ==
  IF resp.raised THEN request_exception(resp.exc)
  ELSE IF resp.status = 200
       THEN IF resp.form = "obj" THEN json_verdict(resp, balance)
            ELSE request_exception(body_exception(resp))
       ELSE Ret(FALSE, Msg("checkin_failed", "HTTP", resp.status), balance)

agentrouter_verdict(resp, balance) ==
  IF resp.raised
  THEN IF resp.exc.cls = "HTTPStatusError"
       THEN IF resp.status = 404 /\ balance.has
            THEN Ret(TRUE, Msg("keepalive_ok", "", 0), balance)
            ELSE Ret(FALSE, Msg("request_failed", resp.exc.cls, resp.exc.len),
                     balance)
       ELSE request_exception(resp.exc)
  ELSE IF resp.status = 200
       THEN IF resp.form = "obj" THEN json_verdict(resp, balance)
            ELSE request_exception(body_exception(resp))
       ELSE IF resp.status = 404
            THEN IF balance.has
                 THEN Ret(TRUE, Msg("keepalive_ok", "", 0), balance)
                 ELSE Ret(FALSE, Msg("keepalive_failed", "", 0), NoBalance)
            ELSE Ret(FALSE, Msg("checkin_failed", "HTTP", resp.status), balance)

\* The platform's verdict.
post_verdict(platform, resp, balance) ==
  IF platform = "AnyRouter" THEN anyrouter_verdict(resp, balance)
  ELSE agentrouter_verdict(resp, balance)

(* ------------------------------------------------------------------ *)
(* Accounts, cookies, outcomes                                         *)
(* ------------------------------------------------------------------ *)
\* One configured account (a dict).  name = "" stands for a missing 'name'
\* key; cookies is the raw blob, "valid" or "invalid".
Acct(name, api_user, cookies, email, password) ==
  [name |-> name, api_user |-> api_user, cookies |-> cookies,
   email |-> email, password |-> password]

AnyAccounts ==
  {Acct("a", "7", "valid", "", ""),
   Acct("", "7", "valid", "", ""),
   Acct("b", "", "valid", "", ""),
   Acct("b", "7", "invalid", "", "")}

AgentAccounts ==
  {Acct("a", "7", "valid", "", ""),
   Acct("", "", "", "e@x", "pw"),
   Acct("b", "", "valid", "", ""),
   Acct("b", "7", "invalid", "e@x", "")}

\* Sequences over S of length n.
SeqN(S, n) == [1..n -> S]

\* account.get('name', f'{platform}账号{index+1}'); i is index + 1.
AccountName(kind, text, n) == [kind |-> kind, text |-> text, n |-> n]

account_name(platform, account, i) ==
  IF account.name # "" THEN AccountName("given", account.name, 0)
  ELSE AccountName("default", platform, i)

\* f'anyrouter_{account_name}' / f'agentrouter_{account_name}'
account_key(platform, name) ==
  [prefix |-> IF platform = "AnyRouter" THEN "anyrouter_" ELSE "agentrouter_",
   name |-> name]

\* A cookie dict is a set of [name, value] pairs with distinct names.
Cookie(name, value) == [name |-> name, value |-> value]

\* {**a, **b}: b's entries win.
merge(a, b) ==
  {c \in a : \A d \in b : d.name # c.name} \cup b

\* config.parse_cookies on the raw blob: a dict, empty when the blob is
\* malformed.
parse_cookies(blob) ==
  IF blob = "valid" THEN {Cookie("session", "u")} ELSE {}

\* _make_result (the timestamp is left out).
make_result(platform, name, success, message, balance) ==
  [platform |-> platform, name |-> name, success |-> success,
   message |-> message, balance |-> balance]

(* ------------------------------------------------------------------ *)
(* The balance ledger                                                  *)
(* ------------------------------------------------------------------ *)
\* A dict is the sequence of its items [k, v] in insertion order, the
\* keys distinct.  An empty dict:
EmptyMap == << >>

\* One item of a dict.
Item(k, v) == [k |-> k, v |-> v]

\* d.keys(), `k in d` and d[k].
keys(d) == {d[i].k : i \in DOMAIN d}

get(d, k) == d[CHOOSE i \in DOMAIN d : d[i].k = k].v

\* d[k] = v as an assignment that leaves the value of a known key alone.
putKeepsFirst(d, k, v) ==
  IF k \in keys(d) THEN d ELSE Append(d, Item(k, v))

\* d[k] = v on a dict: a known key keeps its place, a new one goes last.
put(d, k, v) ==
  IF k \in keys(d)
  THEN [i \in DOMAIN d |-> IF d[i].k = k THEN Item(k, v) ELSE d[i]]
  ELSE Append(d, Item(k, v))

\* The place of an account name in Python's order of strings, for the
\* names of the model: the default names start with a capital letter
\* ('AnyRouter...1' < 'AnyRouter...2' < 'a' < 'b').
name_rank(name) ==
  IF name.kind = "default" THEN name.n
  ELSE IF name.text = "a" THEN 10 ELSE 11

\* The place of a ledger key: 'agentrouter_...' < 'anyrouter_...'.
key_rank(k) ==
  (IF k.prefix = "agentrouter_" THEN 0 ELSE 100) + name_rank(k.name)

\* json.dumps(d) without sort_keys: the items in insertion order.
dumps_unsorted(d) == d

\* json.dumps(d, sort_keys=True): the items in the order of their keys.
RECURSIVE insert_item(_, _)
insert_item(s, e) ==
  IF s = << >> THEN <<e>>
  ELSE IF key_rank(e.k) < key_rank(Head(s).k) THEN <<e>> \o s
  ELSE <<Head(s)>> \o insert_item(Tail(s), e)

RECURSIVE sort_keys(_)
sort_keys(d) ==
  IF d = << >> THEN << >>
  ELSE insert_item(sort_keys(Tail(d)), Head(d))

\* simple_balances = {k: v['quota'] for k, v in balances.items()}
simple_balances(balances) ==
  [i \in DOMAIN balances |-> Item(balances[i].k, balances[i].v.quota)]

\* hashlib.sha256(text.encode()).hexdigest()[:16]: the digest stands for
\* the text it is taken of (two texts, two digests); it is never the empty
\* string.
sha256_16(text) == <<text>>

\* The empty string, as f.read().strip() gives it for an empty file.
EmptyText == << >>

\* sha256(json.dumps(simple_balances, sort_keys=True))[:16]
generate_balance_hash(balances) ==
  sha256_16(sort_keys(simple_balances(balances)))

\* Optional[str] for the hash: None or a string.
Absent == [has |-> FALSE, v |-> EmptyText]
Some(v) == [has |-> TRUE, v |-> v]

\* A ledger file: missing, holding what the last write put there, or left
\* empty by a write that failed after open(..., 'w') had truncated it.
NoFile == [exists |-> FALSE, whole |-> FALSE, v |-> EmptyText]
Written(v) == [exists |-> TRUE, whole |-> TRUE, v |-> v]
Truncated == [exists |-> TRUE, whole |-> FALSE, v |-> EmptyText]

\* _load_balance_hash: the stripped content of the file, None without file.
load_balance_hash(file) ==
  IF file.exists THEN Some(IF file.whole THEN file.v ELSE EmptyText)
  ELSE Absent

\* _load_balance_data: the parsed content of the file, {} without file or
\* when json.load raises.
load_balance_data(file) ==
  IF file.exists /\ file.whole THEN file.v ELSE EmptyMap

\* How a call of _save_balance_hash / _save_balance_data can end: written,
\* open() raised (the file is as before), or the write raised after the
\* truncation; the last two are absorbed as a warning.
SaveOutcomes == {"ok", "open_failed", "write_failed"}

\* A save that keeps a file that is already there.
saveKeepsExisting(file, content, outcome) ==
  IF file.exists THEN file
  ELSE IF outcome = "ok" THEN Written(content)
  ELSE IF outcome = "open_failed" THEN file
  ELSE Truncated

save(file, content, outcome) ==
  IF outcome = "ok" THEN Written(content)
  ELSE IF outcome = "open_failed" THEN file
  ELSE Truncated

\* One call of a save method, for the log of the run.
SaveCall(file, outcome) == [file |-> file, outcome |-> outcome]

\* The change notice as one that looks at the total recharge only.
show_balance_changeRechargeOnly(last, key, current) ==
  IF key \notin keys(last) THEN << >>
  ELSE LET last_balance == get(last, key)
           last_total == last_balance.quota + last_balance.used
           current_total == current.quota + current.used
           total_recharge == current_total - last_total
           used_change == current.used - last_balance.used
           quota_change == current.quota - last_balance.quota
       IN IF total_recharge # 0
          THEN << [key |-> key, recharge |-> total_recharge,
                   used |-> used_change, quota |-> quota_change] >>
          ELSE << >>

\* The change notice _show_balance_change prints, if any.
show_balance_change(last, key, current) ==
  IF key \notin keys(last) THEN << >>
  ELSE LET last_balance == get(last, key)
           last_total == last_balance.quota + last_balance.used
           current_total == current.quota + current.used
           total_recharge == current_total - last_total
           used_change == current.used - last_balance.used
           quota_change == current.quota - last_balance.quota
       IN IF total_recharge # 0 \/ used_change # 0
          THEN << [key |-> key, recharge |-> total_recharge,
                   used |-> used_change, quota |-> quota_change] >>
          ELSE << >>

\* The ledger left by an earlier run, as the files hold it.
Ledger(h, d) == [hash |-> h, data |-> d]

PrevData ==
  <<Item(account_key("AnyRouter", AccountName("given", "a", 0)),
         Balance(1000, 200))>>

PrevLedgers ==
  {Ledger(NoFile, NoFile),
   Ledger(Written(generate_balance_hash(PrevData)), Written(PrevData))}

(* ------------------------------------------------------------------ *)
(* The platform summary                                                *)
(* ------------------------------------------------------------------ *)
RECURSIVE sum_over(_, _)
sum_over(rs, field) ==
  IF rs = << >> THEN 0
  ELSE (IF Head(rs).balance.has THEN Head(rs).balance[field] ELSE 0)
       + sum_over(Tail(rs), field)

count_success(rs) == Cardinality({k \in 1..Len(rs) : rs[k].success})

\* One printed line of the aggregate part of a summary.
TotalLine(label, cents) == [label |-> label, cents |-> cents]

\* The summary as one that prints the aggregate lines in every case.
print_platform_summaryAlwaysTotals(platform_name, platform_results) ==
  LET success_count == count_success(platform_results)
  IN [platform |-> platform_name,
      accounts |-> Len(platform_results),
      success |-> success_count,
      failed |-> Len(platform_results) - success_count,
      totals |-> <<TotalLine("total_quota",
                             sum_over(platform_results, "quota")),
                   TotalLine("total_used",
                             sum_over(platform_results, "used"))>>]

\* _print_platform_summary: what it prints; the two aggregate lines are
\* printed under `if has_balance` (lines 88-90).
print_platform_summary(platform_name, platform_results) ==
  LET success_count == count_success(platform_results)
      failed_count == Len(platform_results) - success_count
      has_balance == \E k \in 1..Len(platform_results) :
                       platform_results[k].balance.has
      total_quota == sum_over(platform_results, "quota")
      total_used == sum_over(platform_results, "used")
  IN [platform |-> platform_name,
      accounts |-> Len(platform_results),
      success |-> success_count,
      failed |-> failed_count,
      totals |-> IF has_balance
                 THEN <<TotalLine("total_quota", total_quota),
                        TotalLine("total_used", total_used)>>
                 ELSE << >>]

(* ------------------------------------------------------------------ *)
(* State                                                               *)
(* ------------------------------------------------------------------ *)
VARIABLES
  anyrouter_accounts,   \* run_all's first argument
  agentrouter_accounts, \* run_all's second argument
  run,                  \* the number of this run of the program
  hash_file,            \* balance_hash.txt
  data_file,            \* balance_data.json
  saves,                \* the calls of the save methods in this run
  last_balance_hash,    \* self.last_balance_hash
  last_balance_data,    \* self.last_balance_data
  current_balances,     \* self.current_balances
  balance_changed,      \* self.balance_changed
  results,              \* run_all's list `results`
  platform,             \* the loop run_all is in, then "finalize", "returned"
  index,                \* position in that loop's account list (index + 1)
  pc,                   \* the await the current account's pipeline is at
  cookies,              \* user_cookies / all_cookies of the current account
  api_user,             \* api_user of the current account
  url_i,                \* position in the URL list of the fallback harvest
  cand,                 \* position in the login flow's candidate list
  harvested,            \* what the last _get_waf_cookies returned ({}: None)
  context,              \* the browser context of the current bootstrap
  ctx_closes,           \* context.close() calls on that context
  contexts_open,        \* contexts launched and not closed, over the run
  client,               \* the httpx.AsyncClient of the current check-in
  client_closes,        \* client.aclose() calls on that client
  clients_open,         \* clients created and not closed, over the run
  balance,              \* local `balance` of the check-in operation
  ret,                  \* its return value
  get_resp,             \* the answer step 1 got
  post_resp,            \* the answer step 2 got
  posts,                \* sign-in POSTs issued by the current check-in
  escaped,              \* per outcome: the exception the boundary caught
  notices,              \* change notices printed (output)
  summaries             \* platform summaries printed (output)

config == <<anyrouter_accounts, agentrouter_accounts, run>>
files == <<hash_file, data_file, saves>>
ledger == <<last_balance_hash, last_balance_data, current_balances,
            balance_changed>>
output == <<notices, summaries>>
browser == <<context, ctx_closes, contexts_open>>
http == <<client, client_closes, clients_open>>
call == <<balance, ret, get_resp, post_resp, posts>>
locals == <<cookies, api_user, url_i, cand, harvested>>

vars == <<anyrouter_accounts, agentrouter_accounts, run, hash_file, data_file,
          saves,
          last_balance_hash, last_balance_data, current_balances,
          balance_changed, results, platform, index, pc, cookies, api_user,
          url_i, cand, harvested, context, ctx_closes, contexts_open, client,
          client_closes, clients_open, balance, ret, get_resp, post_resp,
          posts, escaped, notices, summaries>>

\* The state of a RouterCheckin object built over the ledger files `prev`,
\* its run over the accounts any and agent being in loop `at` with the
\* balances `recorded`.
object(any, agent, prev, recorded, at) ==
  /\ anyrouter_accounts = any
  /\ agentrouter_accounts = agent
  /\ run = 1
  /\ hash_file = prev.hash
  /\ data_file = prev.data
  /\ saves = << >>
  /\ last_balance_hash = load_balance_hash(prev.hash)
  /\ last_balance_data = load_balance_data(prev.data)
  /\ current_balances = recorded
  /\ balance_changed = FALSE
  /\ results = << >>
  /\ platform = at
  /\ index = 1
  /\ pc = "loop"
  /\ cookies = {}
  /\ api_user = ""
  /\ url_i = 0
  /\ cand = 0
  /\ harvested = {}
  /\ context = "none"
  /\ ctx_closes = 0
  /\ contexts_open = 0
  /\ client = "none"
  /\ client_closes = 0
  /\ clients_open = 0
  /\ balance = NoBalance
  /\ ret = NoRet
  /\ get_resp = NoGet
  /\ post_resp = NoPost
  /\ posts = 0
  /\ escaped = << >>
  /\ notices = << >>
  /\ summaries = << >>

\* The state RouterCheckin() and the call of run_all start from.
start(any, agent, prev) == object(any, agent, prev, EmptyMap, "AnyRouter")

\* A run over at most MaxAccounts accounts, after no run or after one.
Init ==
  \E n \in 0..MaxAccounts : \E m \in 0..(MaxAccounts - n) :
    \E any \in SeqN(AnyAccounts, n) : \E agent \in SeqN(AgentAccounts, m) :
      \E prev \in PrevLedgers : start(any, agent, prev)

(* ------------------------------------------------------------------ *)
(* The per-account boundary: checkin_anyrouter / checkin_agentrouter   *)
(* ------------------------------------------------------------------ *)
accounts_of(p) ==
  IF p = "AnyRouter" THEN anyrouter_accounts ELSE agentrouter_accounts

in_loop == platform \in {"AnyRouter", "AgentRouter"}

current_account == accounts_of(platform)[index]

current_name == account_name(platform, current_account, index)

\* The outcome put at the front of the list instead of its end.
finishPrepend(result, exc) ==
  /\ results' = <<result>> \o results
  /\ escaped' = <<exc>> \o escaped
  /\ index' = index + 1
  /\ pc' = "loop"
  /\ cookies' = {}
  /\ api_user' = ""
  /\ url_i' = 0
  /\ cand' = 0
  /\ harvested' = {}
  /\ balance' = NoBalance
  /\ ret' = NoRet
  /\ get_resp' = NoGet
  /\ post_resp' = NoPost
  /\ posts' = 0
  /\ UNCHANGED <<platform, config>>

\* results.append(result); await asyncio.sleep(2); the loop moves on.
finish(result, exc) ==
  /\ results' = Append(results, result)
  /\ escaped' = Append(escaped, exc)
  /\ index' = index + 1
  /\ pc' = "loop"
  /\ cookies' = {}
  /\ api_user' = ""
  /\ url_i' = 0
  /\ cand' = 0
  /\ harvested' = {}
  /\ balance' = NoBalance
  /\ ret' = NoRet
  /\ get_resp' = NoGet
  /\ post_resp' = NoPost
  /\ posts' = 0
  /\ UNCHANGED <<platform, config>>

\* What the variables finish sets do when the pipeline goes on to `next`.
goto(next) ==
  /\ pc' = next
  /\ UNCHANGED <<results, escaped, index, platform, config>>

\* A failed outcome of the current account.
failure(kind) ==
  make_result(platform, current_name, FALSE, Msg(kind, "", 0), NoBalance)

\* `except Exception` catches every exception that is no bare BaseException.
catchesNothing(exc) == FALSE

catches(exc) ==
  exc.cls \notin {"CancelledError", "KeyboardInterrupt", "SystemExit"}

\* except Exception as e: error_msg = f'签到异常: {str(e)[:50]}'
boundary_result(exc) ==
  make_result(platform, current_name, FALSE,
              Msg("checkin_exception", exc.cls, Truncate(exc.len)), NoBalance)

\* An exception leaves the pipeline of the current account: the boundary's
\* handler turns it into an outcome, or it leaves run_all.
raise(exc) ==
  IF catches(exc)
  THEN finish(boundary_result(exc), exc)
  ELSE /\ pc' = "crashed"
       /\ UNCHANGED <<results, escaped, index, platform, config, locals, call>>

\* What the browser and the HTTP client library raise.
BrowserExcs == {Exc("TimeoutError", 3), Exc("PlaywrightError", MaxExcLen)}
ClientExcs == {Exc("ImportError", MaxExcLen)}

(* ------------------------------------------------------------------ *)
(* checkin_anyrouter / checkin_agentrouter up to the first await       *)
(* ------------------------------------------------------------------ *)
\* The URLs the anti-bot cookies are harvested from.
waf_urls(p) ==
  IF p = "AnyRouter" THEN <<"https://anyrouter.top/login">>
  ELSE <<"https://agentrouter.org", "https://agentrouter.org/console">>

\* if email and password (AgentRouter only)
uses_login(p, account) ==
  p = "AgentRouter" /\ account.email # "" /\ account.password # ""

checkin_start ==
  /\ pc = "loop"
  /\ in_loop
  /\ index <= Len(accounts_of(platform))
  /\ context' = "none"
  /\ ctx_closes' = 0
  /\ client' = "none"
  /\ client_closes' = 0
  /\ UNCHANGED <<contexts_open, clients_open, files, ledger, output>>
  /\ IF uses_login(platform, current_account)
     THEN /\ goto("login_launch")
          /\ UNCHANGED <<locals, call>>
     ELSE IF current_account.api_user = ""
     THEN finish(failure("api_user_missing"), NoExc)
     ELSE IF parse_cookies(current_account.cookies) = {}
     THEN finish(failure("cookies_malformed"), NoExc)
     ELSE /\ goto("waf_launch")
          /\ cookies' = parse_cookies(current_account.cookies)
          /\ api_user' = current_account.api_user
          /\ url_i' = 1
          /\ UNCHANGED <<cand, harvested, call>>

(* ------------------------------------------------------------------ *)
(* _get_waf_cookies and _get_waf_cookies_with_fallback                 *)
(* ------------------------------------------------------------------ *)
WafNames == {"acw_tc", "cdn_sec_tc", "acw_sc__v2"}

\* The cookie lists page.context.cookies() returns.
CookieJars ==
  {{},
   {Cookie("acw_tc", "t1")},
   {Cookie("acw_tc", ""), Cookie("other", "o")},
   {Cookie("acw_tc", "t1"), Cookie("acw_sc__v2", "t2"), Cookie("session", "s1")},
   {Cookie("session", "s1")},
   {Cookie("session", ""), Cookie("acw_tc", "t1")}}

\* The whitelisted cookies with a non-empty value.
waf_filter(jar) == {c \in jar : c.name \in WafNames /\ c.value # ""}

\* The fallback loop as an exhaustive search: a non-empty harvest does not
\* stop it while URLs are left.
waf_returnExhaustive(w) ==
  IF platform = "AgentRouter" /\ url_i < Len(waf_urls(platform))
  THEN /\ goto("waf_launch")
       /\ harvested' = w
       /\ url_i' = url_i + 1
       /\ cookies' = merge(w, cookies)
       /\ UNCHANGED <<api_user, cand, call>>
  ELSE IF w # {}
  THEN /\ goto("client_create")
       /\ harvested' = w
       /\ cookies' = merge(w, cookies)
       /\ UNCHANGED <<api_user, url_i, cand, call>>
  ELSE IF platform = "AnyRouter"
  THEN finish(failure("waf_unavailable"), NoExc)
  ELSE /\ goto("client_create")
       /\ harvested' = w
       /\ UNCHANGED <<cookies, api_user, url_i, cand, call>>

\* The return of the harvest as one that goes on to the check-in without
\* anti-bot cookies on either platform.
waf_returnProceeds(w) ==
  IF w # {}
  THEN /\ goto("client_create")
       /\ harvested' = w
       /\ cookies' = merge(w, cookies)
       /\ UNCHANGED <<api_user, url_i, cand, call>>
  ELSE IF platform = "AgentRouter" /\ url_i < Len(waf_urls(platform))
  THEN /\ goto("waf_launch")
       /\ harvested' = w
       /\ url_i' = url_i + 1
       /\ UNCHANGED <<cookies, api_user, cand, call>>
  ELSE /\ goto("client_create")
       /\ harvested' = w
       /\ UNCHANGED <<cookies, api_user, url_i, cand, call>>

\* The harvest returned w ({} for None) to the per-account pipeline: the
\* fallback loop of _get_waf_cookies_with_fallback, then lines 117-127 of
\* checkin_anyrouter or 187-197 of checkin_agentrouter.
waf_return(w) ==
  IF w # {}
  THEN /\ goto("client_create")
       /\ harvested' = w
       /\ cookies' = merge(w, cookies)
       /\ UNCHANGED <<api_user, url_i, cand, call>>
  ELSE IF platform = "AnyRouter"
  THEN finish(failure("waf_unavailable"), NoExc)
  ELSE IF url_i < Len(waf_urls(platform))
  THEN /\ goto("waf_launch")
       /\ harvested' = w
       /\ url_i' = url_i + 1
       /\ UNCHANGED <<cookies, api_user, cand, call>>
  ELSE /\ goto("client_create")
       /\ harvested' = w
       /\ UNCHANGED <<cookies, api_user, url_i, cand, call>>

\* await context.close()
close_context ==
  /\ context' = "closed"
  /\ ctx_closes' = ctx_closes + 1
  /\ contexts_open' = contexts_open - 1

\* await context.close() raising, n times in a row: the context stays open.
close_raises(n) ==
  /\ context' = context
  /\ ctx_closes' = ctx_closes + n
  /\ contexts_open' = contexts_open

\* The handler of _get_waf_cookies (lines 268-271) after `closes` earlier
\* calls of context.close() in the same step: it closes the context and
\* returns None, or its own context.close() raises to the caller.
waf_fail(closes) ==
  \/ /\ context' = "closed"
     /\ ctx_closes' = ctx_closes + closes + 1
     /\ contexts_open' = contexts_open - 1
     /\ waf_return({})
  \/ /\ close_raises(closes + 1)
     /\ \E e \in BrowserExcs : raise(e)

\* p.chromium.launch_persistent_context(...), outside the try.
waf_launch ==
  /\ pc = "waf_launch"
  /\ UNCHANGED <<files, ledger, output, http>>
  /\ \/ /\ context' = "open"
        /\ ctx_closes' = 0
        /\ contexts_open' = contexts_open + 1
        /\ goto("waf_new_page")
        /\ UNCHANGED <<locals, call>>
     \/ /\ \E e \in BrowserExcs : raise(e)
        /\ UNCHANGED browser

\* page = await context.new_page(), outside the try.
waf_new_page ==
  /\ pc = "waf_new_page"
  /\ UNCHANGED <<files, ledger, output, http, browser>>
  /\ \/ /\ goto("waf_goto")
        /\ UNCHANGED <<locals, call>>
     \/ \E e \in BrowserExcs : raise(e)

\* await page.goto(url, ...); on an exception the handler closes the
\* context and returns None.
waf_goto ==
  /\ pc = "waf_goto"
  /\ UNCHANGED <<files, ledger, output, http>>
  /\ \/ /\ goto("waf_settle")
        /\ UNCHANGED <<locals, call, browser>>
     \/ waf_fail(0)

\* await page.wait_for_function('document.readyState === "complete"'),
\* and on its failure await page.wait_for_timeout(2000).
waf_settle ==
  /\ pc = "waf_settle"
  /\ UNCHANGED <<files, ledger, output, http>>
  /\ \/ /\ goto("waf_cookies")
        /\ UNCHANGED <<locals, call, browser>>
     \/ /\ goto("waf_settle_wait")
        /\ UNCHANGED <<locals, call, browser>>

waf_settle_wait ==
  /\ pc = "waf_settle_wait"
  /\ UNCHANGED <<files, ledger, output, http>>
  /\ \/ /\ goto("waf_cookies")
        /\ UNCHANGED <<locals, call, browser>>
     \/ waf_fail(0)

\* cookies = await page.context.cookies(); the filter; context.close();
\* return waf_cookies if waf_cookies else None.  cookies() raising, or
\* context.close() at line 265 raising, enters the handler.
waf_cookies ==
  /\ pc = "waf_cookies"
  /\ UNCHANGED <<files, ledger, output, http>>
  /\ \/ /\ close_context
        /\ \E jar \in CookieJars : waf_return(waf_filter(jar))
     \/ waf_fail(0)
     \/ waf_fail(1)

(* ------------------------------------------------------------------ *)
(* _do_anyrouter_checkin / _do_agentrouter_checkin, await by await     *)
(* ------------------------------------------------------------------ *)
\* client = httpx.AsyncClient(http2=True, timeout=30.0), before the try.
client_create ==
  /\ pc = "client_create"
  /\ UNCHANGED <<files, ledger, output, browser>>
  /\ \/ /\ client' = "open"
        /\ client_closes' = 0
        /\ clients_open' = clients_open + 1
        /\ goto("checkin_get")
        /\ UNCHANGED <<locals, call>>
     \/ /\ \E e \in ClientExcs : raise(e)
        /\ UNCHANGED http

\* Step 1 as a step that gives up on a raised request: the outer handler
\* and the finally block run, the sign-in POST is never issued.
checkin_getAborts(resp) ==
  /\ pc = "checkin_get"
  /\ UNCHANGED <<files, ledger, output, browser, http, locals>>
  /\ balance' = read_balance(resp)
  /\ get_resp' = resp
  /\ IF resp.raised
     THEN /\ ret' = request_exception(Exc("ConnectError", 3))
          /\ goto("client_close")
     ELSE /\ ret' = ret
          /\ goto("checkin_post")
  /\ UNCHANGED <<post_resp, posts>>

\* Step 1: await client.get('.../api/user/self') inside its own
\* try/except; whatever it yields, control reaches the sign-in POST.
checkin_get(resp) ==
  /\ pc = "checkin_get"
  /\ UNCHANGED <<files, ledger, output, browser, http, locals>>
  /\ balance' = read_balance(resp)
  /\ get_resp' = resp
  /\ goto("checkin_post")
  /\ UNCHANGED <<ret, post_resp, posts>>

\* Step 2: await client.post('.../api/user/sign_in') and the verdict on
\* its answer, up to the return statement (or the outer handler).
checkin_post(resp) ==
  /\ pc = "checkin_post"
  /\ UNCHANGED <<files, ledger, output, browser, http, locals>>
  /\ ret' = post_verdict(platform, resp, balance)
  /\ post_resp' = resp
  /\ posts' = posts + 1
  /\ goto("client_close")
  /\ UNCHANGED <<balance, get_resp>>

\* The finally block as one that runs on the success path only.
client_closeOnSuccess ==
  /\ pc = "client_close"
  /\ UNCHANGED <<files, ledger, output, browser, locals, call>>
  /\ IF ret.success
     THEN /\ client' = "closed"
          /\ client_closes' = client_closes + 1
          /\ clients_open' = clients_open - 1
     ELSE UNCHANGED http
  /\ goto("checkin_return")

\* finally: await client.aclose()
client_close ==
  /\ pc = "client_close"
  /\ UNCHANGED <<files, ledger, output, browser, locals, call>>
  /\ client' = "closed"
  /\ client_closes' = client_closes + 1
  /\ clients_open' = clients_open - 1
  /\ goto("checkin_return")

\* Recording a balance as a step that persists the map at once.
record_balancePersists ==
  /\ pc = "checkin_return"
  /\ UNCHANGED <<hash_file, browser, http, summaries, last_balance_hash,
                 last_balance_data, balance_changed>>
  /\ LET key == account_key(platform, current_name)
     IN IF ret.balance.has
        THEN /\ current_balances' = put(current_balances, key, ret.balance)
             /\ data_file' = save(data_file, current_balances', "ok")
             /\ saves' = Append(saves, SaveCall("data", "ok"))
             /\ notices' = notices \o
                  show_balance_change(last_balance_data, key, ret.balance)
        ELSE UNCHANGED <<current_balances, notices, data_file, saves>>
  /\ finish(make_result(platform, current_name, ret.success, ret.message,
                        ret.balance), NoExc)

\* Back in checkin_anyrouter / checkin_agentrouter: record the balance,
\* show the change, build the outcome (lines 129-137 / 199-207).
record_balance ==
  /\ pc = "checkin_return"
  /\ UNCHANGED <<files, browser, http, summaries, last_balance_hash,
                 last_balance_data, balance_changed>>
  /\ LET key == account_key(platform, current_name)
     IN IF ret.balance.has
        THEN /\ current_balances' = put(current_balances, key, ret.balance)
             /\ notices' = notices \o
                  show_balance_change(last_balance_data, key, ret.balance)
        ELSE UNCHANGED <<current_balances, notices>>
  /\ finish(make_result(platform, current_name, ret.success, ret.message,
                        ret.balance), NoExc)

(* ------------------------------------------------------------------ *)
(* run_all after a platform's loop, and _check_balance_change          *)
(* ------------------------------------------------------------------ *)
\* anyrouter_results / agentrouter_results: the outcomes of this loop.
platform_results == SubSeq(results, Len(results) - index + 2, Len(results))

\* if platform_results: self._print_platform_summary(...)
platform_summary ==
  /\ pc = "loop"
  /\ in_loop
  /\ index > Len(accounts_of(platform))
  /\ summaries' =
       IF platform_results # << >>
       THEN Append(summaries, print_platform_summary(platform, platform_results))
       ELSE summaries
  /\ platform' = IF platform = "AnyRouter" THEN "AgentRouter" ELSE "finalize"
  /\ index' = 1
  /\ UNCHANGED <<pc, results, escaped, config, files, ledger, notices,
                 browser, http, locals, call>>

\* The comparison as one that has no first-run case.
hash_changedCompareOnly(last_hash, current_hash) ==
  last_hash.has /\ current_hash # last_hash.v

\* Lines 778-788: no previous hash (first run), or a different one.
hash_changed(last_hash, current_hash) ==
  IF ~last_hash.has THEN TRUE
  ELSE IF current_hash # last_hash.v THEN TRUE
  ELSE FALSE

\* The finalize pass as one that keeps the entries of the previous run for
\* the accounts without a balance in this one.
check_balance_changeMerging ==
  /\ pc = "loop"
  /\ platform = "finalize"
  /\ platform' = "returned"
  /\ IF current_balances = EmptyMap
     THEN UNCHANGED <<balance_changed, files>>
     ELSE LET current_hash == generate_balance_hash(current_balances)
              kept == SelectSeq(last_balance_data,
                                LAMBDA it : it.k \notin keys(current_balances))
          IN /\ balance_changed' = hash_changed(last_balance_hash, current_hash)
             /\ \E h \in SaveOutcomes : \E d \in SaveOutcomes :
                  /\ hash_file' = save(hash_file, current_hash, h)
                  /\ data_file' = save(data_file, current_balances \o kept, d)
                  /\ saves' = saves \o <<SaveCall("hash", h), SaveCall("data", d)>>
  /\ UNCHANGED <<pc, index, results, escaped, config, last_balance_hash,
                 last_balance_data, current_balances, output, browser, http,
                 locals, call>>

\* self._check_balance_change(); return results
check_balance_change ==
  /\ pc = "loop"
  /\ platform = "finalize"
  /\ platform' = "returned"
  /\ IF current_balances = EmptyMap
     THEN UNCHANGED <<balance_changed, files>>
     ELSE LET current_hash == generate_balance_hash(current_balances)
          IN /\ balance_changed' = hash_changed(last_balance_hash, current_hash)
             /\ \E h \in SaveOutcomes : \E d \in SaveOutcomes :
                  /\ hash_file' = save(hash_file, current_hash, h)
                  /\ data_file' = save(data_file, current_balances, d)
                  /\ saves' = saves \o <<SaveCall("hash", h), SaveCall("data", d)>>
  /\ UNCHANGED <<pc, index, results, escaped, config, last_balance_hash,
                 last_balance_data, current_balances, output, browser, http,
                 locals, call>>

(* ------------------------------------------------------------------ *)
(* _login_agentrouter                                                  *)
(* ------------------------------------------------------------------ *)
login_urls ==
  <<"https://agentrouter.org/login", "https://agentrouter.org/#/login",
    "https://agentrouter.org">>

email_selectors ==
  <<"input[type=\"email\"]", "input[name=\"email\"]",
    "input[placeholder*=\"youxiang\"]", "input[placeholder*=\"Email\"]",
    "input[placeholder*=\"email\"]">>

password_selectors == <<"input[type=\"password\"]", "input[name=\"password\"]">>

login_button_selectors ==
  <<"button[type=\"submit\"]", "button:has-text(\"denglu\")",
    "button:has-text(\"Login\")", "button:has-text(\"Sign in\")",
    "button.login-button", "input[type=\"submit\"]">>

\* _login_agentrouter returned None: line 161-162 of checkin_agentrouter.
login_none == finish(failure("login_failed"), NoExc)

\* return None after await context.close(); when the close raises, the
\* outer handler (line 483) returns None all the same.
login_fail_closed ==
  /\ \/ close_context
     \/ close_raises(1)
  /\ login_none

\* The outer handler (line 483): return None, the context is not closed.
login_fail_outer ==
  /\ UNCHANGED browser
  /\ login_none

\* The next stage of the flow, starting at its first candidate.
login_stage(next) ==
  /\ goto(next)
  /\ cand' = 1
  /\ UNCHANGED <<cookies, api_user, url_i, harvested, call, browser>>

\* A failed candidate as the end of the login: no other one is tried.
login_nextGivesUp(candidates) == login_fail_closed

\* One candidate of a stage failed: the next one, or give up after the last.
login_next(candidates) ==
  IF cand < Len(candidates)
  THEN /\ goto(pc)
       /\ cand' = cand + 1
       /\ UNCHANGED <<cookies, api_user, url_i, harvested, call, browser>>
  ELSE login_fail_closed

\* async with async_playwright() (outside the try), then
\* launch_persistent_context (inside it).
login_launch ==
  /\ pc = "login_launch"
  /\ UNCHANGED <<files, ledger, output, http>>
  /\ \/ /\ context' = "open"
        /\ ctx_closes' = 0
        /\ contexts_open' = contexts_open + 1
        /\ goto("login_new_page")
        /\ UNCHANGED <<locals, call>>
     \/ login_fail_outer
     \/ /\ \E e \in BrowserExcs : raise(e)
        /\ UNCHANGED browser

login_new_page ==
  /\ pc = "login_new_page"
  /\ UNCHANGED <<files, ledger, output, http>>
  /\ \/ login_stage("login_goto")
     \/ login_fail_outer

\* One pass of the loop over login_urls: goto, settle, query_selector.
login_goto ==
  /\ pc = "login_goto"
  /\ UNCHANGED <<files, ledger, output, http>>
  /\ \/ login_stage("login_fill_email")   \* email_input found: break
     \/ login_next(login_urls)            \* no email input, or an exception

\* One pass of the loop over email_selectors: page.fill(selector, email).
login_fill_email ==
  /\ pc = "login_fill_email"
  /\ UNCHANGED <<files, ledger, output, http>>
  /\ \/ login_stage("login_fill_password")
     \/ login_next(email_selectors)

\* One pass of the loop over password_selectors.
login_fill_password ==
  /\ pc = "login_fill_password"
  /\ UNCHANGED <<files, ledger, output, http>>
  /\ \/ login_stage("login_form_wait")
     \/ login_next(password_selectors)

\* await page.wait_for_timeout(1000); the handler at line 374 closes.
login_form_wait ==
  /\ pc = "login_form_wait"
  /\ UNCHANGED <<files, ledger, output, http>>
  /\ \/ login_stage("login_click")
     \/ login_fail_closed

\* One pass of the loop over login_button_selectors: page.click(selector).
login_click ==
  /\ pc = "login_click"
  /\ UNCHANGED <<files, ledger, output, http>>
  /\ \/ login_stage("login_wait_url")
     \/ login_next(login_button_selectors)

\* await page.wait_for_url('**/console**', timeout=15000)
login_wait_url ==
  /\ pc = "login_wait_url"
  /\ UNCHANGED <<files, ledger, output, http>>
  /\ \/ login_stage("login_cookies")
     \/ login_stage("login_wait_fallback")

\* await page.wait_for_timeout(5000), then the look at page.url.
login_wait_fallback ==
  /\ pc = "login_wait_fallback"
  /\ UNCHANGED <<files, ledger, output, http>>
  /\ \/ login_fail_outer                  \* the wait raised
     \/ login_fail_closed                 \* still on the login page
     \/ login_stage("login_cookies")      \* some other page

\* The value of the cookie named n in jar, "" when there is none.
cookie_value(jar, n) ==
  IF \E c \in jar : c.name = n
  THEN (CHOOSE c \in jar : c.name = n).value
  ELSE ""

\* cookies = await page.context.cookies() and the extraction loop.
login_cookies ==
  /\ pc = "login_cookies"
  /\ UNCHANGED <<files, ledger, output, http>>
  /\ \/ login_fail_outer                  \* cookies() raised
     \/ \E jar \in CookieJars :
          IF cookie_value(jar, "session") = ""
          THEN login_fail_closed
          ELSE /\ goto("login_user_id")
               /\ cookies' = merge({Cookie("session", cookie_value(jar, "session"))},
                                   {c \in jar : c.name \in WafNames})
               /\ UNCHANGED <<api_user, url_i, cand, harvested, call, browser>>

\* The user-id recovery as a mandatory step: without an id the login
\* closes the context and returns None.
login_user_idFatal ==
  /\ pc = "login_user_id"
  /\ UNCHANGED <<files, ledger, output, http>>
  /\ \/ /\ goto("login_close")
        /\ api_user' = "7"
        /\ UNCHANGED <<cookies, url_i, cand, harvested, call, browser>>
     \/ login_fail_closed

\* The in-page fetch of /api/user/self: a user id, or nothing (success
\* false, no id, or an exception, which is swallowed).
login_user_id ==
  /\ pc = "login_user_id"
  /\ UNCHANGED <<files, ledger, output, http, browser>>
  /\ goto("login_close")
  /\ \E id \in {"", "7"} : api_user' = id
  /\ UNCHANGED <<cookies, url_i, cand, harvested, call>>

\* await context.close(); return {'cookies': ..., 'api_user': ...}; then
\* lines 164-197 of checkin_agentrouter.
login_close ==
  /\ pc = "login_close"
  /\ UNCHANGED <<files, ledger, output, http>>
  /\ \/ /\ close_context
        /\ goto("client_create")
        /\ UNCHANGED <<locals, call>>
     \/ /\ close_raises(1)        \* the outer handler: return None
        /\ login_none

(* ------------------------------------------------------------------ *)
(* Specifications                                                      *)
(* ------------------------------------------------------------------ *)
Bootstrap ==
  \/ checkin_start
  \/ waf_launch \/ waf_new_page \/ waf_goto \/ waf_settle
  \/ waf_settle_wait \/ waf_cookies
  \/ login_launch \/ login_new_page \/ login_goto \/ login_fill_email
  \/ login_fill_password \/ login_form_wait \/ login_click
  \/ login_wait_url \/ login_wait_fallback \/ login_cookies
  \/ login_user_id \/ login_close

Orchestrate == platform_summary \/ check_balance_change

\* The two requests, the API answering with one answer of each kind.
get_user_self == \E resp \in GetCore : checkin_get(resp)

post_sign_in == \E resp \in PostCore : checkin_post(resp)

\* A run of run_all.
Next ==
  \/ Bootstrap
  \/ client_create
  \/ get_user_self
  \/ post_sign_in
  \/ client_close
  \/ record_balance
  \/ Orchestrate

Spec == Init /\ [][Next]_vars

\* The same run with every await completing: run_all is one coroutine that
\* goes on as soon as the operation it awaits has returned or raised.
SpecFair == Spec /\ WF_vars(Next)

\* The two requests, the API answering with every answer of the model.
get_user_self_any == \E resp \in GetResponses : checkin_get(resp)

post_sign_in_any == \E resp \in PostResponses : checkin_post(resp)

\* One account checked in.
InitCheckin ==
  \E prev \in PrevLedgers :
    \/ \E a \in AnyAccounts : start(<<a>>, << >>, prev)
    \/ \E a \in AgentAccounts : start(<< >>, <<a>>, prev)

NextCheckin ==
  \/ Bootstrap
  \/ client_create
  \/ get_user_self_any
  \/ post_sign_in_any
  \/ client_close
  \/ record_balance
  \/ Orchestrate

SpecCheckin == InitCheckin /\ [][NextCheckin]_vars

\* Two accounts of one platform, with or without the same name, the API
\* answering GET /api/user/self with one of two balances.
GetPair == GetCore \cup {GetResp(FALSE, 200, TRUE, TRUE, 6000000, 1000000)}

get_user_self_pair == \E resp \in GetPair : checkin_get(resp)

PairAny == {Acct("a", "7", "valid", "", ""), Acct("", "7", "valid", "", "")}

PairAgent == {Acct("a", "7", "valid", "", ""), Acct("", "", "", "e@x", "pw")}

InitPair ==
  \/ \E a \in PairAny : \E b \in PairAny :
       start(<<a, b>>, << >>, Ledger(NoFile, NoFile))
  \/ \E a \in PairAgent : \E b \in PairAgent :
       start(<< >>, <<a, b>>, Ledger(NoFile, NoFile))

NextPair ==
  \/ Bootstrap
  \/ client_create
  \/ get_user_self_pair
  \/ post_sign_in
  \/ client_close
  \/ record_balance
  \/ Orchestrate

SpecPair == InitPair /\ [][NextPair]_vars

\* The account configurations of the runs that follow one another.
RunConfigs ==
  {[any |-> <<Acct("a", "7", "valid", "", "")>>, agent |-> << >>],
   [any |-> << >>, agent |-> <<Acct("a", "7", "valid", "", "")>>],
   [any |-> <<Acct("a", "7", "valid", "", "")>>,
    agent |-> <<Acct("", "", "", "e@x", "pw")>>]}

\* The program is run again: RouterCheckin() loads the ledger files the
\* earlier runs left (lines 26-30) and run_all is called.  Nothing else
\* outlives the process.
next_run ==
  /\ platform = "returned"
  /\ run < MaxRuns
  /\ run' = run + 1
  /\ \E cfg \in RunConfigs :
       /\ anyrouter_accounts' = cfg.any
       /\ agentrouter_accounts' = cfg.agent
  /\ UNCHANGED <<hash_file, data_file>>
  /\ saves' = << >>
  /\ last_balance_hash' = load_balance_hash(hash_file)
  /\ last_balance_data' = load_balance_data(data_file)
  /\ current_balances' = EmptyMap
  /\ balance_changed' = FALSE
  /\ results' = << >>
  /\ platform' = "AnyRouter"
  /\ index' = 1
  /\ pc' = "loop"
  /\ cookies' = {}
  /\ api_user' = ""
  /\ url_i' = 0
  /\ cand' = 0
  /\ harvested' = {}
  /\ context' = "none"
  /\ ctx_closes' = 0
  /\ contexts_open' = 0
  /\ client' = "none"
  /\ client_closes' = 0
  /\ clients_open' = 0
  /\ balance' = NoBalance
  /\ ret' = NoRet
  /\ get_resp' = NoGet
  /\ post_resp' = NoPost
  /\ posts' = 0
  /\ escaped' = << >>
  /\ notices' = << >>
  /\ summaries' = << >>

\* Runs that follow one another, the first one with or without the files
\* of an earlier run.
InitRuns ==
  \E cfg \in RunConfigs : \E prev \in PrevLedgers :
    start(cfg.any, cfg.agent, prev)

NextRuns == NextPair \/ next_run

SpecRuns == InitRuns /\ [][NextRuns]_vars

\* The balance maps _generate_balance_hash is applied to: up to
\* MaxLedgerKeys accounts in every insertion order, with balances that
\* share a quota or a used amount.
LedgerKeys ==
  {account_key("AnyRouter", AccountName("given", "a", 0)),
   account_key("AnyRouter", AccountName("given", "b", 0)),
   account_key("AgentRouter", AccountName("given", "a", 0))}

LedgerBalances == {Balance(1000, 200), Balance(1000, 0), Balance(200, 200)}

LedgerItems == {Item(k, b) : k \in LedgerKeys, b \in LedgerBalances}

DictsOf(n) ==
  {d \in [1..n -> LedgerItems] :
     \A i \in 1..n : \A j \in 1..n : i # j => d[i].k # d[j].k}

LedgerDicts == UNION {DictsOf(n) : n \in 0..MaxLedgerKeys}

\* The files an earlier run with the balances d left: _save_balance_hash
\* and _save_balance_data at the end of _check_balance_change.
saved_by(d) == Ledger(Written(generate_balance_hash(d)), Written(d))

\* A RouterCheckin object at the call of _check_balance_change: built
\* after no run or after a run that recorded some balances, it has
\* recorded the balances of this run.
InitLedger ==
  \E recorded \in LedgerDicts :
    \E prev \in {Ledger(NoFile, NoFile)}
                 \cup {saved_by(d) : d \in LedgerDicts \ {EmptyMap}} :
      object(<< >>, << >>, prev, recorded, "finalize")

NextLedger == check_balance_change

SpecLedger == InitLedger /\ [][NextLedger]_vars

(* ------------------------------------------------------------------ *)
(* Properties of the check-in protocol (SpecCheckin)                   *)
(* ------------------------------------------------------------------ *)
\* The check-in operation has returned to the per-account pipeline.
returned == pc = "checkin_return"

\* The sign-in POST answered with an HTTP status (it did not raise).
answered(status) == ~post_resp.raised /\ post_resp.status = status

\* C3: whenever the sign-in POST raises, times out or answers with a status
\* other than 200 and 404, the check-in returns success = false, whatever
\* the balance read gave.
C3_SignInFailureFails ==
  (returned /\ (post_resp.raised \/ post_resp.status \notin {200, 404}))
    => ret.success = FALSE

C3_Witness ==
  /\ returned
  /\ post_resp.raised
  /\ post_resp.exc.cls = "ReadTimeout"
  /\ balance.has
  /\ ~ret.success

\* C4: on HTTP 200 with a JSON object the check-in succeeds exactly when
\* ret == 1 or code == 0 or `success` is truthy; otherwise it fails with
\* the text of msg, else of message, else the 'unknown error' default.
C4_JsonVerdict ==
  (returned /\ answered(200) /\ post_resp.form = "obj")
    => /\ ret.success <=> (\/ post_resp.ret = "1"
                           \/ post_resp.code = "0"
                           \/ post_resp.success = "true")
       /\ ~ret.success =>
            ret.message =
              Msg("checkin_failed",
                  IF post_resp.msg # "absent" THEN post_resp.msg
                  ELSE IF post_resp.message # "absent" THEN post_resp.message
                  ELSE "unknown_error",
                  0)

C4_Witness ==
  /\ returned
  /\ post_resp = PostObj("absent", "5", "absent", "cooldown", "busy")
  /\ ~ret.success
  /\ ret.message = Msg("checkin_failed", "cooldown", 0)

\* C5 as stated: on both platforms HTTP 404 after a balance was read is a
\* keep-alive success carrying the balance, and HTTP 404 without one fails.
C5_KeepAliveEveryPlatform ==
  (returned /\ answered(404))
    => IF balance.has
       THEN ret = Ret(TRUE, Msg("keepalive_ok", "", 0), balance)
       ELSE ~ret.success

\* C5, amended: on AgentRouter HTTP 404 after a balance was read is a
\* keep-alive success carrying the balance; on AnyRouter it is a failure
\* naming the status, the balance attached; HTTP 404 without a balance
\* fails on both.
C5_KeepAliveAgentRouterOnly ==
  (returned /\ answered(404))
    => IF balance.has
       THEN IF platform = "AgentRouter"
            THEN ret = Ret(TRUE, Msg("keepalive_ok", "", 0), balance)
            ELSE ret = Ret(FALSE, Msg("checkin_failed", "HTTP", 404), balance)
       ELSE ~ret.success

C5_Witness ==
  /\ returned
  /\ answered(404)
  /\ platform = "AgentRouter"
  /\ balance = Balance(1000, 200)
  /\ ret = Ret(TRUE, Msg("keepalive_ok", "", 0), Balance(1000, 200))

\* C6: on both platforms HTTP 200 with a body that is no JSON falls back to
\* the case-insensitive search for "success": success if found, else the
\* response-format failure; never a request exception.
C6_TextFallbackEveryPlatform ==
  (returned /\ answered(200) /\ post_resp.form = "text")
    => /\ ret.message.kind # "request_exception"
       /\ IF \E k \in 0..(Len(post_resp.text) - 7) :
               Lower(SubSeq(post_resp.text, k + 1, k + 7)) = TxtNeedle
          THEN ret.success
          ELSE /\ ~ret.success
               /\ ret.message = Msg("checkin_failed", "response_format_error", 0)

\* C7: a balance read in step 1 stays attached to a failed result when the
\* sign-in ends in a non-success verdict, an unexpected status or a body
\* that is no JSON, on both platforms.
C7_FailureKeepsBalance ==
  (returned /\ balance.has /\ ~ret.success /\ ~post_resp.raised)
    => ret.balance = balance

\* C8: whatever step 1 yields, the sign-in POST is issued after it, once,
\* and the result is the verdict on the POST's answer; step 1 enters it
\* through the balance alone.
C8_StepOneNeverAborts ==
  /\ pc = "checkin_post" => (posts = 0 /\ client = "open" /\ ret = NoRet)
  /\ pc \in {"client_close", "checkin_return"}
       => /\ posts = 1
          /\ post_resp # NoPost
          /\ balance = read_balance(get_resp)
          /\ ret = post_verdict(platform, post_resp, balance)

C8_Witness ==
  /\ returned
  /\ get_resp.raised
  /\ posts = 1
  /\ answered(200)
  /\ ret.success

\* C9 as stated: an exception in the balance GET or in the sign-in POST
\* gives a failed result with at most 50 characters of exception text and
\* no balance.
C9_ExceptionEitherStepFails ==
  (returned /\ (get_resp.raised \/ post_resp.raised))
    => /\ ~ret.success
       /\ ret.message.kind = "request_exception"
       /\ ret.message.n <= 50
       /\ ~ret.balance.has

\* C9, amended: an exception in the sign-in POST gives a failed result with
\* at most 50 characters of exception text and no balance, even when step 1
\* read one; an exception in the balance GET leaves the balance absent and
\* does not fail the result by itself.
C9_PostExceptionFails ==
  returned
    => /\ post_resp.raised
            => /\ ~ret.success
               /\ ret.message.kind = "request_exception"
               /\ ret.message.n <= 50
               /\ ret.message.n <= post_resp.exc.len
               /\ post_resp.exc.len <= 50 => ret.message.n = post_resp.exc.len
               /\ ~ret.balance.has
       /\ get_resp.raised => (~balance.has /\ ~ret.balance.has)

C9_Witness ==
  /\ returned
  /\ post_resp.raised
  /\ post_resp.exc.len > 50
  /\ balance.has
  /\ ret.message.n = 50
  /\ ~ret.balance.has

\* C10: the HTTP client a check-in creates is closed exactly once on every
\* exit path, so none is open when control is back in the per-account
\* pipeline.
C10_ClientClosedOnce ==
  /\ client_closes <= 1
  /\ clients_open = (IF client = "open" THEN 1 ELSE 0)
  /\ client = "open" <=> pc \in {"checkin_get", "checkin_post", "client_close"}
  /\ returned => (client = "closed" /\ client_closes = 1)

C10_Witness ==
  /\ returned
  /\ post_resp.raised
  /\ client = "closed"
  /\ client_closes = 1
  /\ clients_open = 0

(* ------------------------------------------------------------------ *)
(* Properties of a run (Spec)                                          *)
(* ------------------------------------------------------------------ *)
total_accounts == Len(anyrouter_accounts) + Len(agentrouter_accounts)

\* Accounts whose processing is over, by the place the loops are at.
done_accounts ==
  CASE platform = "AnyRouter" -> index - 1
    [] platform = "AgentRouter" -> Len(anyrouter_accounts) + index - 1
    [] OTHER -> total_accounts

\* The platform and the name of the k-th account in platform-then-account
\* order.
expected_platform(k) ==
  IF k <= Len(anyrouter_accounts) THEN "AnyRouter" ELSE "AgentRouter"

expected_name(k) ==
  IF k <= Len(anyrouter_accounts)
  THEN account_name("AnyRouter", anyrouter_accounts[k], k)
  ELSE account_name("AgentRouter",
                    agentrouter_accounts[k - Len(anyrouter_accounts)],
                    k - Len(anyrouter_accounts))

\* C1: run_all yields exactly one outcome per account, the AnyRouter
\* accounts in list order and then the AgentRouter accounts in list order;
\* while an account is processed the outcomes of all accounts before it,
\* and of no other, exist; no mix of successes, failures and exceptions
\* ends the run early.
C1_OneOutcomePerAccountInOrder ==
  /\ pc # "crashed"
  /\ Len(results) = done_accounts
  /\ \A k \in 1..Len(results) :
       /\ results[k].platform = expected_platform(k)
       /\ results[k].name = expected_name(k)
  /\ pc # "loop" => (in_loop /\ index <= Len(accounts_of(platform)))
  /\ platform = "returned" => Len(results) = total_accounts

C1_Witness ==
  /\ platform = "returned"
  /\ Len(results) = 2
  /\ results[1].platform = "AnyRouter"
  /\ results[1].name = AccountName("default", "AnyRouter", 1)
  /\ escaped[1] # NoExc
  /\ results[2].platform = "AgentRouter"
  /\ results[2].success

harvest_steps ==
  {"waf_launch", "waf_new_page", "waf_goto", "waf_settle",
   "waf_settle_wait", "waf_cookies"}

\* The step taken is an await of _get_waf_cookies raising to its caller:
\* the exception ends the account at the boundary of the pipeline.
harvest_raised ==
  /\ pc \in harvest_steps
  /\ \/ pc' = "crashed"
     \/ /\ Len(escaped') = Len(escaped) + 1
        /\ escaped'[Len(escaped')] # NoExc

\* C11: _get_waf_cookies never raises to its caller: a failure of any of
\* its steps (launch, new page, navigation, settle, cookie extraction,
\* closing the context) makes it return None.
C11_HarvestNeverRaises == [][~harvest_raised]_vars

\* The step taken leaves _get_waf_cookies (to its caller, by a return or
\* by an exception) with a context that had been launched.
harvest_exit ==
  /\ pc \in harvest_steps
  /\ context = "open"
  /\ pc' \notin (harvest_steps \ {"waf_launch"})

login_steps ==
  {"login_launch", "login_new_page", "login_goto", "login_fill_email",
   "login_fill_password", "login_form_wait", "login_click",
   "login_wait_url", "login_wait_fallback", "login_cookies",
   "login_user_id", "login_close"}

\* The step taken leaves _login_agentrouter (by a return or an exception)
\* with a context that had been launched.
login_exit ==
  /\ pc \in login_steps
  /\ context = "open"
  /\ pc' \notin login_steps

fallback_urls == waf_urls("AgentRouter")

\* The step taken is a call of _get_waf_cookies returning (a dict or None)
\* to the loop of _get_waf_cookies_with_fallback.
fallback_harvest_returned ==
  /\ platform = "AgentRouter"
  /\ pc \in {"waf_goto", "waf_settle_wait", "waf_cookies"}
  /\ pc' \in {"waf_launch", "client_create"}

\* One step of _get_waf_cookies_with_fallback as the claim describes it.
fallback_in_order ==
  /\ (pc = "loop" /\ pc' = "waf_launch") => url_i' = 1
  /\ (platform = "AgentRouter" /\ pc \in harvest_steps /\ pc' \in harvest_steps
        /\ ~fallback_harvest_returned) => url_i' = url_i
  /\ fallback_harvest_returned =>
       IF harvested' # {}
       THEN /\ pc' = "client_create"
            /\ url_i' = url_i
            /\ cookies' = merge(harvested', cookies)
       ELSE IF url_i < Len(fallback_urls)
       THEN /\ pc' = "waf_launch"
            /\ url_i' = url_i + 1
            /\ cookies' = cookies
       ELSE /\ pc' = "client_create"
            /\ cookies' = cookies

\* C14: _get_waf_cookies_with_fallback visits the URLs in list order, one
\* after the other; the first non-empty harvest is returned at once and no
\* later URL is visited; None is returned only after the last URL of the
\* list yielded nothing.
C14_FallbackFirstMatchWins == [][fallback_in_order]_vars

C14_Witness ==
  /\ platform = "AgentRouter"
  /\ pc = "client_create"
  /\ url_i = 1
  /\ Len(fallback_urls) = 2
  /\ harvested = {Cookie("acw_tc", "t1")}
  /\ cookies = {Cookie("acw_tc", "t1"), Cookie("session", "u")}

(* ------------------------------------------------------------------ *)
(* Properties of the balance ledger                                    *)
(* ------------------------------------------------------------------ *)
\* The ledger key of an outcome: f'anyrouter_{name}' / f'agentrouter_{name}'.
result_key(r) == account_key(r.platform, r.name)

\* rechargeDelta != 0 or usedDelta != 0, between an earlier balance and a
\* current one.
delta_nonzero(last, current) ==
  \/ (current.quota + current.used) - (last.quota + last.used) # 0
  \/ current.used - last.used # 0

\* C15: _show_balance_change prints a change notice for an account exactly
\* when its key is in the previous run's balance map and the recharge
\* delta or the used delta is non-zero, which is exactly when the current
\* (quota, used) differs from the previous one; nothing is printed for a
\* key without previous entry nor for an unchanged balance.
C15_NoticeIffChanged ==
  /\ Len(results) = 0 => notices = << >>
  /\ Len(results) = 1 =>
       LET r == results[1]
           key == result_key(r)
       IN IF r.balance.has /\ key \in keys(last_balance_data)
          THEN LET last == get(last_balance_data, key)
               IN /\ delta_nonzero(last, r.balance)
                     <=> <<r.balance.quota, r.balance.used>>
                            # <<last.quota, last.used>>
                  /\ IF delta_nonzero(last, r.balance)
                     THEN Len(notices) = 1 /\ notices[1].key = key
                     ELSE notices = << >>
          ELSE notices = << >>

C15_Witness ==
  /\ Len(results) = 1
  /\ results[1].balance = Balance(1200, 0)
  /\ result_key(results[1]) \in keys(last_balance_data)
  /\ get(last_balance_data, result_key(results[1])) = Balance(1000, 200)
  /\ Len(notices) = 1
  /\ notices[1].recharge = 0
  /\ notices[1].used = -200

\* The mapping account key -> quota of a balance map.
quota_map(d) == [k \in keys(d) |-> get(d, k).quota]

\* C16: the fingerprint depends on the mapping key -> quota only: two
\* balance maps with the same keys and quotas have the same fingerprint
\* whatever their used amounts and insertion orders, two maps that differ
\* in a quota (or a key) have different ones; so the run reports a change
\* exactly when the quota mapping differs from the previous run's.
C16_FingerprintOfQuotaMap ==
  last_balance_hash.has =>
    /\ last_balance_hash.v = generate_balance_hash(last_balance_data)
    /\ (generate_balance_hash(current_balances) = last_balance_hash.v)
         <=> (quota_map(current_balances) = quota_map(last_balance_data))
    /\ (platform = "returned" /\ current_balances # EmptyMap) =>
         (balance_changed
            <=> quota_map(current_balances) # quota_map(last_balance_data))

C16_Witness ==
  /\ platform = "returned"
  /\ last_balance_hash.has
  /\ Len(current_balances) = 2
  /\ Len(last_balance_data) = 2
  /\ current_balances[1].k = last_balance_data[2].k
  /\ current_balances[2].k = last_balance_data[1].k
  /\ current_balances[1].v.used # last_balance_data[2].v.used
  /\ quota_map(current_balances) = quota_map(last_balance_data)
  /\ ~balance_changed

\* run_all has returned.
run_returned == platform = "returned"

\* The object was built without a persisted hash: a first-ever run.
first_run == ~last_balance_hash.has

\* C17 as stated: on a first-ever run balance_changed is true once run_all
\* has returned, whatever the accounts and their outcomes.
C17_FirstRunAlwaysChanged ==
  (run_returned /\ first_run) => balance_changed

\* C17, amended: on a first-ever run balance_changed is true once run_all
\* has returned exactly when some account's balance was recorded (some
\* outcome carries a balance); with no balance recorded it stays false.
C17_FirstRunChangedIffBalance ==
  (run_returned /\ first_run) =>
    /\ balance_changed <=> current_balances # EmptyMap
    /\ balance_changed <=> \E k \in 1..Len(results) : results[k].balance.has

C17_Witness ==
  /\ run_returned
  /\ first_run
  /\ Len(results) = 2
  /\ results[1].balance.has
  /\ ~results[2].balance.has
  /\ balance_changed

\* The calls of _save_balance_hash and _save_balance_data a finalize pass
\* makes when it persists: one of each, the hash first, however they end.
finalize_saves ==
  {<<SaveCall("hash", h), SaveCall("data", d)>> :
     h \in SaveOutcomes, d \in SaveOutcomes}

\* Some outcome of the run carries a balance.
balance_obtained == \E k \in 1..Len(results) : results[k].balance.has

\* C18 as stated: in every run each ledger file is written exactly once,
\* by the finalize pass, before run_all returns.
C18_LedgerWrittenOncePerRun ==
  /\ run_returned => saves \in finalize_saves
  /\ ~run_returned => saves = << >>

\* The durable state and the loaded previous-run state change in no step
\* but the finalize pass, which leaves the loaded state alone.
ledger_written_at_finalize_only ==
  /\ (hash_file' # hash_file \/ data_file' # data_file \/ saves' # saves)
       => (platform = "finalize" /\ platform' = "returned")
  /\ last_balance_hash' = last_balance_hash
  /\ last_balance_data' = last_balance_data

\* Once run_all has returned, each ledger file has been written (or the
\* write attempted) once if a balance was obtained, and not at all if none.
ledger_saves_per_run ==
  /\ ~run_returned => saves = << >>
  /\ run_returned =>
       /\ balance_obtained <=> current_balances # EmptyMap
       /\ IF balance_obtained
          THEN saves \in finalize_saves
          ELSE saves = << >> /\ ~balance_changed

\* C18, amended: the durable ledger state is written at most once per run,
\* by the finalize pass alone, after all accounts were processed and before
\* run_all returns: exactly one write of each file is attempted when some
\* balance was obtained in the run, none when no balance was obtained;
\* recording a balance and reporting a delta leave the files and the
\* loaded previous-run state unchanged.
C18_LedgerWrittenAtFinalizeOnly ==
  [](ledger_saves_per_run) /\ [][ledger_written_at_finalize_only]_vars

C18_Witness ==
  /\ run_returned
  /\ Len(results) = 2
  /\ results[1].balance.has
  /\ results[2].balance.has
  /\ Len(current_balances) = 2
  /\ saves = <<SaveCall("hash", "ok"), SaveCall("data", "ok")>>
  /\ hash_file = Written(generate_balance_hash(current_balances))
  /\ data_file = Written(current_balances)

(* ------------------------------------------------------------------ *)
(* C19: what the next run loads                                         *)
(* ------------------------------------------------------------------ *)
\* The step from the end of one run to the start of the next one.
restart == run' = run + 1

\* C19 as stated: the hash and the balance map the later run loads are the
\* hash and the current-run balance map of the earlier run, in every pair
\* of consecutive runs.
C19_NextRunLoadsPreviousRun ==
  [][restart =>
       /\ last_balance_hash' = Some(generate_balance_hash(current_balances))
       /\ last_balance_data' = current_balances]_vars

\* C19, amended: a run that obtained a balance attempts both writes, changed
\* or not, and the later run loads from each file that was written the hash
\* resp. the balance map of the earlier run; after a run that obtained no
\* balance the later run loads what the earlier run had loaded.
C19_NextRunLoadsWhatWasPersisted ==
  [][restart =>
       IF current_balances = EmptyMap
       THEN /\ saves = << >>
            /\ last_balance_hash' = last_balance_hash
            /\ last_balance_data' = last_balance_data
       ELSE /\ Len(saves) = 2
            /\ saves[1].outcome = "ok" =>
                 last_balance_hash'
                   = Some(generate_balance_hash(current_balances))
            /\ saves[2].outcome = "ok" =>
                 last_balance_data' = current_balances]_vars

\* The second run is about to start and has loaded the hash and the balance
\* map of a first run that recorded the balance of AgentRouter account "a",
\* which no earlier file held.
C19_Witness ==
  /\ run = 2
  /\ platform = "AnyRouter"
  /\ index = 1
  /\ results = << >>
  /\ current_balances = EmptyMap
  /\ Len(last_balance_data) = 1
  /\ last_balance_data[1]
       = Item(account_key("AgentRouter", AccountName("given", "a", 0)),
              Balance(1000, 200))
  /\ last_balance_hash = Some(generate_balance_hash(last_balance_data))

(* ------------------------------------------------------------------ *)
(* C20: the platform summary                                            *)
(* ------------------------------------------------------------------ *)
\* The outcomes of a platform's accounts within run_all's list.
outcomes_of(platform_name) ==
  IF platform_name = "AnyRouter"
  THEN SubSeq(results, 1, Len(anyrouter_accounts))
  ELSE SubSeq(results, Len(anyrouter_accounts) + 1,
              Len(anyrouter_accounts) + Len(agentrouter_accounts))

\* The positions of the outcomes that carry a balance.
with_balance(rs) == {k \in 1..Len(rs) : rs[k].balance.has}

\* The sum of a balance field over the outcomes at the positions S.
RECURSIVE total_of(_, _, _)
total_of(rs, S, field) ==
  IF S = {} THEN 0
  ELSE LET k == CHOOSE i \in S : TRUE
       IN rs[k].balance[field] + total_of(rs, S \ {k}, field)

\* C20: every printed platform summary reports as account count the number
\* of the platform's outcomes, success and failure counts that add up to it,
\* and, only when some outcome carries a balance, the two aggregate lines,
\* whose amounts are the sums over exactly the outcomes with a balance.
C20_PlatformSummary ==
  \A n \in 1..Len(summaries) :
    LET s == summaries[n]
        rs == outcomes_of(s.platform)
        S == with_balance(rs)
    IN /\ s.accounts = Len(rs)
       /\ s.success = Cardinality({k \in 1..Len(rs) : rs[k].success})
       /\ s.success + s.failed = s.accounts
       /\ s.totals = IF S = {} THEN << >>
                     ELSE <<TotalLine("total_quota", total_of(rs, S, "quota")),
                            TotalLine("total_used", total_of(rs, S, "used"))>>

\* Two AnyRouter accounts, the first succeeded with the balance 10.00 / 2.00,
\* the second failed without one: 2 accounts, 1 success, 1 failure, 10.00
\* and 2.00 in total.
C20_Witness ==
  /\ Len(anyrouter_accounts) = 2
  /\ Len(results) >= 2
  /\ results[1].success
  /\ results[1].balance = Balance(1000, 200)
  /\ ~results[2].success
  /\ ~results[2].balance.has
  /\ Len(summaries) >= 1
  /\ summaries[1] = [platform |-> "AnyRouter", accounts |-> 2,
                     success |-> 1, failed |-> 1,
                     totals |-> <<TotalLine("total_quota", 1000),
                                  TotalLine("total_used", 200)>>]

(* ------------------------------------------------------------------ *)
(* C21: the check-in after the harvest                                  *)
(* ------------------------------------------------------------------ *)
\* The awaits of _do_anyrouter_checkin / _do_agentrouter_checkin.
http_steps ==
  {"client_create", "checkin_get", "checkin_post", "client_close",
   "checkin_return"}

\* The step taken ends the account's pipeline inside the harvest.
harvest_ends_account == pc \in harvest_steps /\ pc' = "loop"

\* C21: for an AnyRouter account the check-in is entered only with a
\* non-empty harvest, and a harvest that ends the account leaves a failed
\* outcome without any HTTP client created; for an AgentRouter cookie
\* account the harvest ends the account only by an exception, and after the
\* last URL returned nothing the check-in is entered with the user cookies
\* alone; in each case the loop is at the next account afterwards.
C21_HarvestThenCheckin ==
  [][/\ (platform = "AnyRouter" /\ pc' \in http_steps) => harvested' # {}
     /\ harvest_ends_account =>
          /\ client = "none" /\ client' = "none"
          /\ posts = 0 /\ get_resp = NoGet
          /\ Len(results') = Len(results) + 1
          /\ ~results'[Len(results')].success
          /\ index' = index + 1
          /\ platform' = platform
     /\ (harvest_ends_account /\ platform = "AgentRouter") =>
          escaped'[Len(escaped')] # NoExc
     /\ (platform = "AgentRouter" /\ pc \in harvest_steps
         /\ pc' = "client_create" /\ harvested' = {}) =>
          /\ url_i = Len(waf_urls("AgentRouter"))
          /\ cookies' = parse_cookies(current_account.cookies)
          /\ api_user' = current_account.api_user]_vars

\* An AnyRouter account failed for want of anti-bot cookies, and the
\* AgentRouter cookie account after it is in its check-in, the sign-in POST
\* issued, with the user cookies alone.
C21_Witness ==
  /\ Len(results) = 1
  /\ results[1].platform = "AnyRouter"
  /\ ~results[1].success
  /\ results[1].message = Msg("waf_unavailable", "", 0)
  /\ platform = "AgentRouter"
  /\ index = 1
  /\ pc = "client_close"
  /\ posts = 1
  /\ harvested = {}
  /\ cookies = parse_cookies(current_account.cookies)
  /\ cookies # {}

(* ------------------------------------------------------------------ *)
(* C22: what the login returns                                          *)
(* ------------------------------------------------------------------ *)
\* The account being processed logs in with its credentials.
login_account ==
  /\ in_loop
  /\ index <= Len(accounts_of(platform))
  /\ uses_login(platform, current_account)

\* The login is past the session check, or has returned its result to
\* checkin_agentrouter, which is in the check-in.
login_passed == pc \in {"login_user_id", "login_close"} \cup http_steps

\* Whenever the login of an account is past its session check, the cookies
\* it holds contain a non-empty `session`.
session_held ==
  (login_account /\ login_passed) => cookie_value(cookies, "session") # ""

\* The recovery of the user id goes on to the close whatever it yields, and
\* after a close that succeeded the check-in is entered with the cookies
\* and the identifier the login had, the empty one included.
user_id_optional ==
  /\ pc = "login_user_id" =>
       /\ pc' = "login_close"
       /\ cookies' = cookies
       /\ results' = results
  /\ (pc = "login_close" /\ context' = "closed") =>
       /\ pc' = "client_create"
       /\ cookies' = cookies
       /\ api_user' = api_user
       /\ results' = results

\* C22: the login returns a result only with a non-empty `session` cookie
\* read after the submission, every returned cookie set contains it, and a
\* failed recovery of the user id leaves the identifier empty without
\* failing the login: the check-in is invoked with the empty identifier.
C22_LoginNeedsSessionOnly == [](session_held) /\ [][user_id_optional]_vars

\* A login account whose user id could not be recovered has had its sign-in
\* POST issued, with the session cookie and the empty identifier.
C22_Witness ==
  /\ login_account
  /\ pc = "client_close"
  /\ posts = 1
  /\ api_user = ""
  /\ cookie_value(cookies, "session") = "s1"

(* ------------------------------------------------------------------ *)
(* C23: the order of the login flow                                     *)
(* ------------------------------------------------------------------ *)
\* The stages of the login that work through a list of candidates.
candidate_stages ==
  {"login_goto", "login_fill_email", "login_fill_password", "login_click"}

\* The candidate list of such a stage.
candidates_of(stage) ==
  CASE stage = "login_goto" -> login_urls
    [] stage = "login_fill_email" -> email_selectors
    [] stage = "login_fill_password" -> password_selectors
    [] stage = "login_click" -> login_button_selectors

\* The order of the flow: the pairs of a step and the step it may hand
\* over to.
login_order ==
  {<<"login_launch", "login_new_page">>, <<"login_new_page", "login_goto">>,
   <<"login_goto", "login_fill_email">>,
   <<"login_fill_email", "login_fill_password">>,
   <<"login_fill_password", "login_form_wait">>,
   <<"login_form_wait", "login_click">>,
   <<"login_click", "login_wait_url">>,
   <<"login_wait_url", "login_wait_fallback">>,
   <<"login_wait_url", "login_cookies">>,
   <<"login_wait_fallback", "login_cookies">>,
   <<"login_cookies", "login_user_id">>, <<"login_user_id", "login_close">>}

\* One step of the login as the claim describes it.
login_in_order ==
  /\ (pc \in login_steps /\ pc' \in login_steps /\ pc' # pc) =>
       /\ <<pc, pc'>> \in login_order
       /\ pc' \in candidate_stages => cand' = 1
  /\ (pc \in candidate_stages /\ pc' = pc /\ cand' # cand) =>
       /\ cand' = cand + 1
       /\ cand' <= Len(candidates_of(pc))
  /\ (pc \in candidate_stages /\ pc' \notin login_steps) =>
       /\ cand = Len(candidates_of(pc))
       /\ pc' = "loop"
       /\ Len(results') = Len(results) + 1
       /\ results'[Len(results')].message = Msg("login_failed", "", 0)
  /\ pc' \in candidate_stages => cand' \in 1..Len(candidates_of(pc'))

\* C23: the login goes through its stages in their order; within a stage
\* the candidates are tried in list order, one more after each failure, the
\* first success hands over to the next stage, and when the last candidate
\* has failed the login returns None, no later stage attempted.
C23_LoginStagesInOrder == [][login_in_order]_vars

\* The login has found the form and filled both fields, and is about to
\* try the last of the button selectors, the five before it having failed.
C23_Witness ==
  /\ login_account
  /\ pc = "login_click"
  /\ cand = Len(login_button_selectors)
  /\ context = "open"
  /\ results = << >>

(* ------------------------------------------------------------------ *)
(* C24: what is written to the current-run map                          *)
(* ------------------------------------------------------------------ *)
\* The step taken is the one after performCheckin returned: lines 129-137
\* of checkin_anyrouter, 199-207 of checkin_agentrouter.
record_step == pc = "checkin_return"

\* One step as the claim describes it.
ledger_follows_balance ==
  /\ record_step =>
       LET key == account_key(platform, current_name)
       IN /\ IF ret.balance.has
             THEN /\ keys(current_balances') = keys(current_balances) \cup {key}
                  /\ Len(current_balances') = Cardinality(keys(current_balances'))
                  /\ get(current_balances', key) = ret.balance
                  /\ \A k \in keys(current_balances) \ {key} :
                       get(current_balances', k) = get(current_balances, k)
             ELSE current_balances' = current_balances
          /\ results' = Append(results,
                               make_result(platform, current_name, ret.success,
                                           ret.message, ret.balance))
  /\ ~record_step => current_balances' = current_balances

\* C24: the current-run map is written only after performCheckin returned,
\* and then exactly when the result carries a balance, whatever the success
\* flag: the balance is put under the key of the platform and the account
\* name, replacing the value an earlier account of the same name left there,
\* and the outcome is appended to the result list in every case.
C24_LedgerFollowsBalance == [][ledger_follows_balance]_vars

\* Two accounts of a platform with the same name: both outcomes are in the
\* list, the second a failed check-in, with different balances, and the map
\* holds one entry, the balance of the second.
C24_Witness ==
  /\ platform = "returned"
  /\ Len(results) = 2
  /\ results[1].name = results[2].name
  /\ results[1].platform = results[2].platform
  /\ results[1].balance.has
  /\ results[2].balance.has
  /\ results[1].balance # results[2].balance
  /\ ~results[2].success
  /\ Len(current_balances) = 1
  /\ current_balances[1].v = results[2].balance

(* ------------------------------------------------------------------ *)
(* C25: the accounts of the persisted balance map                       *)
(* ------------------------------------------------------------------ *)
\* The keys of the accounts that obtained a balance in this run.
keys_obtained ==
  {account_key(results[k].platform, results[k].name) :
     k \in {i \in 1..Len(results) : results[i].balance.has}}

persisted_keys ==
  (run_returned /\ balance_obtained /\ Len(saves) = 2
   /\ saves[2].outcome = "ok") =>
    /\ data_file = Written(current_balances)
    /\ keys(load_balance_data(data_file)) = keys_obtained

\* The next run has no baseline for an account the persisted map lacks, and
\* an account without baseline gets no change notice.
dropped_baseline ==
  /\ restart => keys(last_balance_data') = keys(load_balance_data(data_file))
  /\ (record_step /\ ret.balance.has
      /\ account_key(platform, current_name) \notin keys(last_balance_data)) =>
       notices' = notices

C26_LedgerFilesAgree ==
  \/ ~hash_file.exists /\ ~data_file.exists
  \/ /\ hash_file.exists
     /\ data_file.exists
     /\ load_balance_hash(hash_file)
          = Some(generate_balance_hash(load_balance_data(data_file)))

(* ------------------------------------------------------------------ *)
(* C27: run_all terminates with nothing left open                       *)
(* ------------------------------------------------------------------ *)
\* run_all returns.
run_terminates == <>run_returned

\* After the return every account has its outcome.
all_outcomes == run_returned => Len(results) = total_accounts

\* The return is the step of the finalize pass, taken once, after the last
\* account.
finalize_once ==
  /\ platform' = "returned" =>
       (platform = "finalize" /\ Len(results) = total_accounts)
  /\ platform = "returned" => platform' = "returned"

\* After the return no browser context and no HTTP client is open.
nothing_open == run_returned => (contexts_open = 0 /\ clients_open = 0)

====
